---- MODULE Spec2Model ----
(***************************************************************************)
(* Model of sample-scripts/sync_clips.py: the WebClipperSync client that   *)
(* pulls paginated clips from the Web Clipper API and materialises each    *)
(* one as a directory <output>/<mode>/<date>_<title-slug>_<site-slug>/.    *)
(* Text is modelled as sequences of one-character strings.                 *)
(***************************************************************************)
EXTENDS Integers, Sequences, FiniteSets, TLC

VARIABLES run, pc, token, today, remote, fs, stats, page, total_clips,
          response, idx, exit_code, abort_cause, pages_fetched, processed,
          clean, lastSave, prevRun, in_url, out_slug

vars == <<run, pc, token, today, remote, fs, stats, page, total_clips,
          response, idx, exit_code, abort_cause, pages_fetched, processed,
          clean, lastSave, prevRun, in_url, out_slug>>

syncVars == <<run, pc, token, today, remote, fs, stats, page, total_clips,
              response, idx, exit_code, abort_cause, pages_fetched,
              processed, clean, lastSave, prevRun>>

-----------------------------------------------------------------------------
(* Bounds of the model                                                     *)

MaxClips == 2
MaxPerPage == 2
MaxRuns == 2
MaxLabels == 2

(* Program constant: slug[:200]                                            *)
SlugMaxLen == 200

-----------------------------------------------------------------------------
(* Text helpers                                                            *)

UpperLetters == <<"A","B","C","D","E","F","G","H","I","J","K","L","M",
                  "N","O","P","Q","R","S","T","U","V","W","X","Y","Z">>
LowerLetters == <<"a","b","c","d","e","f","g","h","i","j","k","l","m",
                  "n","o","p","q","r","s","t","u","v","w","x","y","z">>
Digits == {"0","1","2","3","4","5","6","7","8","9"}

Min(a, b) == IF a < b THEN a ELSE b

Range(s) == {s[i] : i \in DOMAIN s}

Prefix(s, n) == SubSeq(s, 1, Min(Len(s), n))

Drop(s, n) == SubSeq(s, n + 1, Len(s))

(* str.find(chars, start): least index >= from holding one of chars, 0 if none *)
FindAny(s, chars, from) ==
    LET hits == {i \in from..Len(s) : s[i] \in chars}
    IN IF hits = {} THEN 0 ELSE CHOOSE i \in hits : \A j \in hits : i <= j

(* str.lower() on one character *)
LowerChar(c) ==
    IF \E i \in 1..26 : UpperLetters[i] = c
    THEN LowerLetters[CHOOSE i \in 1..26 : UpperLetters[i] = c]
    ELSE c

Lower(s) == [i \in 1..Len(s) |-> LowerChar(s[i])]

(* str.replace(old, '') for a non-empty pattern: every occurrence, left to right *)
RECURSIVE RemoveAll(_, _)
RemoveAll(s, pat) ==
    IF Len(s) < Len(pat) THEN s
    ELSE IF SubSeq(s, 1, Len(pat)) = pat THEN RemoveAll(Drop(s, Len(pat)), pat)
    ELSE <<s[1]>> \o RemoveAll(Tail(s), pat)

(* re.sub(r'[^a-z0-9-]', '', slug) *)
RECURSIVE KeepSlugChars(_)
KeepSlugChars(s) ==
    IF s = <<>> THEN <<>>
    ELSE IF s[1] \in Range(LowerLetters) \cup Digits \cup {"-"}
         THEN <<s[1]>> \o KeepSlugChars(Tail(s))
         ELSE KeepSlugChars(Tail(s))

(* re.sub(r'-+', '-', slug) *)
RECURSIVE CollapseHyphens(_)
CollapseHyphens(s) ==
    IF Len(s) < 2 THEN s
    ELSE IF s[1] = "-" /\ s[2] = "-" THEN CollapseHyphens(Tail(s))
    ELSE <<s[1]>> \o CollapseHyphens(Tail(s))

(* slug.strip('-') *)
RECURSIVE StripHyphens(_)
StripHyphens(s) ==
    IF s = <<>> THEN s
    ELSE IF s[1] = "-" THEN StripHyphens(Tail(s))
    ELSE IF s[Len(s)] = "-" THEN StripHyphens(SubSeq(s, 1, Len(s) - 1))
    ELSE s

slugify(text) ==
    LET lowered == Lower(text)
        hyphened == [i \in 1..Len(lowered) |->
                        IF lowered[i] \in {" ", "_"} THEN "-" ELSE lowered[i]]
    IN Prefix(StripHyphens(CollapseHyphens(KeepSlugChars(hyphened))), SlugMaxLen)

-----------------------------------------------------------------------------
(* urllib.parse.urlparse as used by extract_site_slug                      *)

SchemeChars == Range(LowerLetters) \cup Range(UpperLetters) \cup Digits
               \cup {"+", "-", "."}

(* the part of the url left after a valid "scheme:" prefix is split off *)
AfterScheme(url) ==
    LET i == FindAny(url, {":"}, 1)
    IN IF /\ i > 1
          /\ url[1] \in Range(LowerLetters) \cup Range(UpperLetters)
          /\ \A k \in 1..(i - 1) : url[k] \in SchemeChars
       THEN Drop(url, i)
       ELSE url

HasNetloc(url) ==
    LET rest == AfterScheme(url)
    IN Len(rest) >= 2 /\ rest[1] = "/" /\ rest[2] = "/"

urlparse_netloc(url) ==
    LET rest == AfterScheme(url)
        delim == FindAny(rest, {"/", "?", "#"}, 3)
    IN IF ~HasNetloc(url) THEN <<>>
       ELSE IF delim = 0 THEN Drop(rest, 2)
       ELSE SubSeq(rest, 3, delim - 1)

urlparse_path(url) ==
    LET rest == AfterScheme(url)
        afterNet == IF HasNetloc(url)
                    THEN Drop(rest, 2 + Len(urlparse_netloc(url)))
                    ELSE rest
        stop == FindAny(afterNet, {"?", "#"}, 1)
    IN IF stop = 0 THEN afterNet ELSE SubSeq(afterNet, 1, stop - 1)

(* urlsplit raises ValueError("Invalid IPv6 URL") on unbalanced brackets *)
urlparse_raises(url) ==
    LET netloc == urlparse_netloc(url)
    IN ("[" \in Range(netloc)) # ("]" \in Range(netloc))

(* path.split('/')[0] *)
FirstSegment(path) ==
    LET slash == FindAny(path, {"/"}, 1)
    IN IF slash = 0 THEN path ELSE SubSeq(path, 1, slash - 1)

UnknownSite == <<"u","n","k","n","o","w","n","-","s","i","t","e">>

WwwDot == <<"w","w","w",".">>

extract_site_slug(url) ==
    IF urlparse_raises(url) THEN UnknownSite
    ELSE LET netloc == urlparse_netloc(url)
             domain == IF netloc # <<>> THEN netloc
                       ELSE FirstSegment(urlparse_path(url))
         IN slugify(RemoveAll(domain, WwwDot))

-----------------------------------------------------------------------------
(* Remote data: the clip details the server can return, keyed by clip id.  *)
(* A field of a JSON object is present with a string, present with null,   *)
(* or absent.                                                              *)

Str(chars) == [kind |-> "str", text |-> chars]
Null == [kind |-> "null", text |-> <<>>]
Absent == [kind |-> "absent", text |-> <<>>]

Iso(day, time) == [valid |-> TRUE, day |-> day, time |-> time]
BadTimestamp == [valid |-> FALSE, day |-> "", time |-> ""]

GithubUrl == <<"h","t","t","p","s",":","/","/","w","w","w",".",
               "g","i","t","h","u","b",".","c","o","m","/","f","o","o">>

Image(name) == [filename |-> {name}]
ImageNoName == [filename |-> {}]

ClipIds == 1..5

Detail(id) ==
    CASE id = 1 -> [id |-> 1, mode |-> "article", title |-> Str(<<"M","y"," ","A">>),
                    url |-> GithubUrl, created_at |-> Iso("20260121", "0900"),
                    content |-> "body1",
                    images |-> <<Image("p.png"), ImageNoName>>]
      [] id = 2 -> [id |-> 2, mode |-> "article", title |-> Str(<<"m","y","_","a","!">>),
                    url |-> GithubUrl, created_at |-> Iso("20260121", "1700"),
                    content |-> "body2", images |-> <<>>]
      [] id = 3 -> [id |-> 3, mode |-> "bookmark", title |-> Absent,
                    url |-> GithubUrl, created_at |-> Iso("20260121", "0900"),
                    content |-> "body3", images |-> <<>>]
      [] id = 4 -> [id |-> 4, mode |-> "bookmark", title |-> Null,
                    url |-> GithubUrl, created_at |-> Iso("20260121", "0900"),
                    content |-> "body4", images |-> <<>>]
      [] OTHER  -> [id |-> id, mode |-> "article", title |-> Str(<<"b">>),
                    url |-> GithubUrl, created_at |-> BadTimestamp,
                    content |-> "body5", images |-> <<>>]

FirstDay == "20260121"
Days == {FirstDay, "20260122"}

(* the server lists every clip once, in id order *)
RECURSIVE SortedSeq(_)
SortedSeq(S) ==
    IF S = {} THEN <<>>
    ELSE LET m == CHOOSE x \in S : \A y \in S : x <= y
         IN <<m>> \o SortedSeq(S \ {m})

ClipLists == {SortedSeq(S) : S \in {T \in SUBSET ClipIds : Cardinality(T) <= MaxClips}}

(* What the server holds: the ordered clip list, the page size it serves,  *)
(* and how it reports total_pages.                                         *)
Remotes == [clips : ClipLists,
            page_size : 1..MaxPerPage,
            report : {"exact", "stale", "absent"}]

CeilDiv(n, d) == (n + d - 1) \div d

(* GET /api/v1/clips?page=p : {clips: [...], total_pages: n} *)
ServePage(r, p) ==
    LET n == Len(r.clips)
        first == (p - 1) * r.page_size + 1
        last == Min(n, p * r.page_size)
        exact == CeilDiv(n, r.page_size)
    IN [clips |-> IF first > n THEN <<>> ELSE SubSeq(r.clips, first, last),
        total_pages |-> CASE r.report = "exact" -> {exact}
                          [] r.report = "stale" -> {exact + 1}
                          [] OTHER -> {}]

NoResponse == [clips |-> <<>>, total_pages |-> {}]

-----------------------------------------------------------------------------
(* Naming                                                                  *)

Untitled == <<"u","n","t","i","t","l","e","d">>

(* a format_date that stamps every clip with the date of the run *)
format_date_now(ts, now) == now

(* format_date: the date part of a parsable timestamp, else today's date *)
format_date(ts, now) == IF ts.valid THEN ts.day ELSE now

(* clip_detail.get('title', 'untitled') *)
TitleOrDefault(d) == IF d.title.kind = "absent" THEN Untitled ELSE d.title.text

clip_dir_name(d, now) ==
    <<format_date(d.created_at, now), slugify(TitleOrDefault(d)),
      extract_site_slug(d.url)>>

(* the directory name of every clip of the remote data on every date *)
ClipDirNames == [id \in ClipIds, now \in Days |-> clip_dir_name(Detail(id), now)]

-----------------------------------------------------------------------------
(* Filesystem: the output root, the mode directories and the clip          *)
(* directories; a clip directory holds at most one content file, at most   *)
(* one metadata.json and an optional media directory.                      *)

EmptyFs == [root |-> FALSE, modes |-> {}, clips |-> {}]

NewDir(path) == [path |-> path, content |-> {}, meta |-> {},
                 media_dir |-> FALSE, media |-> {}]

DirsAt(tree, path) == {c \in tree.clips : c.path = path}

PutDir(tree, dir) ==
    [tree EXCEPT !.clips = (@ \ DirsAt(tree, dir.path)) \cup {dir}]

(* a cleanup that leaves the partial directory in place *)
rmtree_skipped(tree, path) == tree

(* shutil.rmtree(clip_dir) guarded by clip_dir.exists() *)
rmtree(tree, path) == [tree EXCEPT !.clips = @ \ DirsAt(tree, path)]

ZeroStats == [downloaded |-> 0, skipped |-> 0, errors |-> 0]

(* a counter update that also counts every clip as downloaded *)
BumpAlsoDownloaded(st, counter) ==
    [st EXCEPT ![counter] = @ + 1,
               !.downloaded = IF counter = "downloaded" THEN @ ELSE @ + 1]

(* self.stats[counter] += 1 *)
Bump(st, counter) == [st EXCEPT ![counter] = @ + 1]

-----------------------------------------------------------------------------
(* download_image: writes the file and returns True on success; every     *)
(* HTTPError (404 or not) and every other exception returns False.         *)

AttOutcomes == {"ok", "not_found", "unauthorized", "conn_error"}

(* a download_image that lets every failure but 404 escape *)
download_image_reraise(media, filename, outcome) ==
    IF outcome = "ok"
    THEN [status |-> "true", media |-> media \cup {filename}]
    ELSE IF outcome = "not_found"
    THEN [status |-> "false", media |-> media]
    ELSE [status |-> "raise", media |-> media]

download_image(media, filename, outcome) ==
    IF outcome = "ok"
    THEN [status |-> "true", media |-> media \cup {filename}]
    ELSE [status |-> "false", media |-> media]

(* img.get('filename', 'image.png') *)
ImgFilename(img) ==
    IF img.filename = {} THEN "image.png" ELSE CHOOSE f \in img.filename : TRUE

(* the for-loop over images (lines 198-206), from image i on *)
RECURSIVE DownloadAll(_, _, _, _, _)
DownloadAll(images, att, i, media, attempts) ==
    IF i > Len(images)
    THEN [raised |-> FALSE, media |-> media, attempts |-> attempts]
    ELSE LET name == ImgFilename(images[i])
             r == download_image(media, name, att[i])
         IN IF r.status = "raise"
            THEN [raised |-> TRUE, media |-> r.media,
                  attempts |-> Append(attempts, name)]
            ELSE DownloadAll(images, att, i + 1, r.media, Append(attempts, name))

-----------------------------------------------------------------------------
(* save_clip                                                               *)

Faults == {"none", "mode_mkdir", "clip_mkdir", "content_write",
           "metadata_write", "media_mkdir"}

Raised(cause, tree, st) ==
    [raised |-> TRUE, cause |-> cause, fs |-> tree, stats |-> st,
     outcome |-> "raised", failed_at |-> cause, attempts |-> <<>>]

Returned(tree, st, outcome, failed_at, attempts) ==
    [raised |-> FALSE, cause |-> "none", fs |-> tree, stats |-> st,
     outcome |-> outcome, failed_at |-> failed_at, attempts |-> attempts]

(* a skip gate that rewrites the directory it found: the content file is  *)
(* truncated before the existence check                                    *)
skip_existing_truncate(tree, st, path) ==
    Returned([tree EXCEPT !.clips =
                 {[c EXCEPT !.content = IF c.path = path THEN {} ELSE @] : c \in @}],
             Bump(st, "skipped"), "skipped", "none", <<>>)

(* if clip_dir.exists(): count the clip as skipped and return *)
skip_existing(tree, st, path) ==
    Returned(tree, Bump(st, "skipped"), "skipped", "none", <<>>)

(* except Exception: count the error and remove the partial directory *)
SaveFailed(tree, st, partial, failed_at, attempts) ==
    Returned(rmtree(PutDir(tree, partial), partial.path),
             Bump(st, "errors"), "errors", failed_at, attempts)

(* the try block of save_clip (lines 172-209) *)
WriteClip(tree, st, d, path, fault, att) ==
    LET dir0 == NewDir(path)
        dir1 == [dir0 EXCEPT !.content = {d.content}]
        dir2 == [dir1 EXCEPT !.meta = {[id |-> d.id, title |-> d.title.text,
                                        mode |-> d.mode,
                                        created_at |-> d.created_at]}]
        dl == DownloadAll(d.images, att, 1, {}, <<>>)
        dir3 == [dir2 EXCEPT !.media_dir = TRUE, !.media = dl.media]
    IN IF fault = "content_write"
       THEN SaveFailed(tree, st, dir0, "content_write", <<>>)
       ELSE IF d.title.kind = "absent"
       THEN SaveFailed(tree, st, dir1, "metadata_build", <<>>)
       ELSE IF fault = "metadata_write"
       THEN SaveFailed(tree, st, dir1, "metadata_write", <<>>)
       ELSE IF d.images = <<>>
       THEN Returned(PutDir(tree, dir2), Bump(st, "downloaded"),
                     "downloaded", "none", <<>>)
       ELSE IF fault = "media_mkdir"
       THEN SaveFailed(tree, st, dir2, "media_mkdir", <<>>)
       ELSE IF dl.raised
       THEN SaveFailed(tree, st, dir3, "download", dl.attempts)
       ELSE Returned(PutDir(tree, dir3), Bump(st, "downloaded"),
                     "downloaded", "none", dl.attempts)

save_clip(tree, st, d, fault, att, now) ==
    LET fs1 == [tree EXCEPT !.modes = @ \cup {d.mode}]
        path == <<d.mode, ClipDirNames[d.id, now]>>
    IN IF fault = "mode_mkdir" /\ d.mode \notin tree.modes
       THEN Raised("mode_mkdir", tree, st)
       ELSE IF d.title.kind = "null"
       THEN Raised("null_title", fs1, st)
       ELSE IF DirsAt(fs1, path) # {}
       THEN skip_existing(fs1, st, path)
       ELSE IF fault = "clip_mkdir"
       THEN Raised("clip_mkdir", fs1, st)
       ELSE WriteClip(fs1, st, d, path, fault, att)


-----------------------------------------------------------------------------
(* _make_request: 401 and URLError call sys.exit(1); any other HTTPError   *)
(* is re-raised to the caller, where nothing catches it.                   *)

RequestOutcomes == {"ok", "unauthorized", "http_error", "unreachable"}

make_request(outcome) ==
    CASE outcome = "ok" -> "return"
      [] outcome = "unauthorized" -> "sys_exit"
      [] outcome = "unreachable" -> "sys_exit"
      [] OTHER -> "raise"

(* a page check that is off by one: if page > total_pages: break *)
LastPageStrict(p, resp) ==
    p > (IF resp.total_pages = {} THEN 1 ELSE CHOOSE n \in resp.total_pages : TRUE)

(* a summary that also fails the run on skipped clips *)
SummaryExitCodeSkipped(st) == IF st.errors > 0 \/ st.skipped > 0 THEN 1 ELSE 0

(* response.get('total_pages', 1) *)
TotalPages(resp) ==
    IF resp.total_pages = {} THEN 1 ELSE CHOOSE n \in resp.total_pages : TRUE

(* if page >= total_pages: break *)
LastPage(p, resp) == p >= TotalPages(resp)

(* if self.stats['errors'] > 0: sys.exit(1) *)
SummaryExitCode(st) == IF st.errors > 0 THEN 1 ELSE 0

NoSave == [id |-> 0, outcome |-> "none", failed_at |-> "none", path |-> <<>>,
           before |-> ZeroStats, dir_before |-> {}, attempts |-> <<>>,
           att |-> <<>>]

NoPrevRun == [tree |-> EmptyFs, errors |-> 0, completed |-> FALSE]

NoUrl == [text |-> <<>>, labels |-> <<>>, wellformed |-> FALSE]
NoSlug == [done |-> FALSE, raised |-> FALSE, value |-> <<>>]

Init ==
    /\ run = 1
    /\ pc = "main"
    /\ token = FALSE
    /\ today = FirstDay
    /\ remote \in Remotes
    /\ fs = EmptyFs
    /\ stats = ZeroStats
    /\ page = 1
    /\ total_clips = 0
    /\ response = NoResponse
    /\ idx = 1
    /\ exit_code = -1
    /\ abort_cause = "none"
    /\ pages_fetched = <<>>
    /\ processed = 0
    /\ clean = TRUE
    /\ lastSave = NoSave
    /\ prevRun = NoPrevRun
    /\ in_url = NoUrl
    /\ out_slug = NoSlug

(* the process ends with status 1: sys.exit(1) or an uncaught exception *)
Abort(cause) ==
    /\ pc' = "exited"
    /\ exit_code' = 1
    /\ abort_cause' = cause

(* main() up to the first list request: token check, then the start of     *)
(* sync_all (output_dir.mkdir, page = 1, total_clips = 0)                  *)
Main ==
    /\ pc = "main"
    /\ \E t \in BOOLEAN :
        /\ token' = t
        /\ IF ~t
           THEN /\ Abort("no_token")
                /\ UNCHANGED fs
           ELSE /\ fs' = [fs EXCEPT !.root = TRUE]
                /\ pc' = "list"
                /\ UNCHANGED <<exit_code, abort_cause>>
    /\ page' = 1
    /\ total_clips' = 0
    /\ UNCHANGED <<run, today, remote, stats, response, idx, pages_fetched,
                   processed, clean, lastSave, prevRun, in_url, out_slug>>

(* one iteration of the while loop up to the for loop: list_clips(page) *)
ListClips ==
    /\ pc = "list"
    /\ pages_fetched' = Append(pages_fetched, page)
    /\ \E outcome \in RequestOutcomes :
        LET resp == ServePage(remote, page)
        IN IF make_request(outcome) # "return"
           THEN /\ Abort(IF outcome = "http_error" THEN "list_http_error"
                         ELSE outcome)
                /\ clean' = FALSE
                /\ UNCHANGED <<response, total_clips, idx>>
           ELSE IF resp.clips = <<>>
           THEN /\ pc' = "summary"
                /\ UNCHANGED <<response, total_clips, idx, exit_code,
                               abort_cause, clean>>
           ELSE /\ response' = resp
                /\ total_clips' = total_clips + Len(resp.clips)
                /\ idx' = 1
                /\ pc' = "clip"
                /\ UNCHANGED <<exit_code, abort_cause, clean>>
    /\ UNCHANGED <<run, token, today, remote, fs, stats, page, processed,
                   lastSave, prevRun, in_url, out_slug>>

EnvFailure(r, att) ==
    \/ r.failed_at \in {"mode_mkdir", "clip_mkdir", "content_write",
                        "metadata_write", "media_mkdir", "download"}
    \/ \E i \in DOMAIN att : i <= Len(r.attempts) /\ att[i] # "ok"

(* one iteration of the for loop: get_clip_detail, save_clip, and after    *)
(* the last clip of the page the total_pages check                         *)
ProcessClip ==
    /\ pc = "clip"
    /\ \E outcome \in RequestOutcomes :
        LET d == Detail(response.clips[idx])
        IN IF make_request(outcome) # "return"
           THEN /\ Abort(outcome)
                /\ clean' = FALSE
                /\ UNCHANGED <<fs, stats, processed, lastSave, idx, page>>
           ELSE \E fault \in Faults, att \in [1..Len(d.images) -> AttOutcomes] :
                LET r == save_clip(fs, stats, d, fault, att, today)
                    path == <<d.mode, ClipDirNames[d.id, today]>>
                IN /\ fs' = r.fs
                   /\ clean' = (clean /\ ~EnvFailure(r, att))
                   /\ IF r.raised
                      THEN /\ Abort(r.cause)
                           /\ UNCHANGED <<stats, processed, lastSave, idx, page>>
                      ELSE /\ stats' = r.stats
                           /\ processed' = processed + 1
                           /\ lastSave' =
                                [id |-> d.id, outcome |-> r.outcome,
                                 failed_at |-> r.failed_at, path |-> path,
                                 before |-> stats,
                                 dir_before |-> DirsAt(fs, path),
                                 attempts |-> r.attempts,
                                 att |-> SubSeq(att, 1, Len(r.attempts))]
                           /\ IF idx < Len(response.clips)
                              THEN /\ idx' = idx + 1
                                   /\ UNCHANGED <<pc, page>>
                              ELSE IF LastPage(page, response)
                              THEN /\ pc' = "summary"
                                   /\ UNCHANGED <<idx, page>>
                              ELSE /\ pc' = "list"
                                   /\ page' = page + 1
                                   /\ UNCHANGED idx
                           /\ UNCHANGED <<exit_code, abort_cause>>
    /\ UNCHANGED <<run, token, today, remote, total_clips, response,
                   pages_fetched, prevRun, in_url, out_slug>>

(* the summary and the exit status of a run that got through every page *)
Summary ==
    /\ pc = "summary"
    /\ pc' = "exited"
    /\ exit_code' = SummaryExitCode(stats)
    /\ UNCHANGED <<run, token, today, remote, fs, stats, page, total_clips,
                   response, idx, abort_cause, pages_fetched, processed,
                   clean, lastSave, prevRun, in_url, out_slug>>

(* the script is started again on the same output directory and the same   *)
(* remote data; the date may have changed                                  *)
NextRun ==
    /\ pc = "exited"
    /\ run < MaxRuns
    /\ run' = run + 1
    /\ pc' = "main"
    /\ today' \in Days
    /\ prevRun' = [tree |-> fs, errors |-> stats.errors,
                   completed |-> (abort_cause = "none")]
    /\ stats' = ZeroStats
    /\ page' = 1
    /\ total_clips' = 0
    /\ response' = NoResponse
    /\ idx' = 1
    /\ exit_code' = -1
    /\ abort_cause' = "none"
    /\ pages_fetched' = <<>>
    /\ processed' = 0
    /\ clean' = TRUE
    /\ lastSave' = NoSave
    /\ UNCHANGED <<token, remote, fs, in_url, out_slug>>

Next == Main \/ ListClips \/ ProcessClip \/ Summary \/ NextRun

Spec == Init /\ [][Next]_vars


-----------------------------------------------------------------------------
(* extract_site_slug on its own: urls of the form                          *)
(* scheme://[www.]label1.label2...[:port][/path], and urls urlparse rejects *)

Labels == {<<"g","i","t","h","u","b">>, <<"c","o","m">>, <<"w","w","w">>}

LabelLists == UNION {[1..k -> Labels] : k \in 1..MaxLabels}

Ports == {<<>>, <<":","8","0">>}

Paths == {<<>>, <<"/","f","o","o">>}

RECURSIVE Join(_, _)
Join(parts, sep) ==
    IF Len(parts) = 0 THEN <<>>
    ELSE IF Len(parts) = 1 THEN parts[1]
    ELSE parts[1] \o sep \o Join(Tail(parts), sep)

HttpsScheme == <<"h","t","t","p","s",":","/","/">>

UrlText(www, labels, port, path) ==
    HttpsScheme \o (IF www THEN WwwDot ELSE <<>>) \o Join(labels, <<".">>)
    \o port \o path

WellFormedUrls ==
    {[text |-> UrlText(www, labels, port, path), labels |-> labels,
      wellformed |-> TRUE] :
        www \in BOOLEAN, labels \in LabelLists, port \in Ports, path \in Paths}

UnparsableUrls ==
    {[text |-> HttpsScheme \o t, labels |-> <<>>, wellformed |-> FALSE] :
        t \in {<<"[","c","o","m">>, <<"c","o","m","]","/","f","o","o">>}}

UrlInputs == WellFormedUrls \cup UnparsableUrls

SlugInit ==
    /\ run = 1
    /\ pc = "main"
    /\ token = FALSE
    /\ today = FirstDay
    /\ remote = [clips |-> <<>>, page_size |-> 1, report |-> "exact"]
    /\ fs = EmptyFs
    /\ stats = ZeroStats
    /\ page = 1
    /\ total_clips = 0
    /\ response = NoResponse
    /\ idx = 1
    /\ exit_code = -1
    /\ abort_cause = "none"
    /\ pages_fetched = <<>>
    /\ processed = 0
    /\ clean = TRUE
    /\ lastSave = NoSave
    /\ prevRun = NoPrevRun
    /\ in_url \in UrlInputs
    /\ out_slug = NoSlug

(* a call of extract_site_slug(url); the bare except lets nothing escape *)
ExtractSiteSlug ==
    /\ ~out_slug.done
    /\ out_slug' = [done |-> TRUE, raised |-> FALSE,
                    value |-> extract_site_slug(in_url.text)]
    /\ UNCHANGED <<syncVars, in_url>>

(* the next url is taken up *)
NextUrl ==
    /\ out_slug.done
    /\ in_url' \in UrlInputs
    /\ out_slug' = NoSlug
    /\ UNCHANGED syncVars

SlugNext == ExtractSiteSlug \/ NextUrl

SlugSpec == SlugInit /\ [][SlugNext]_vars

-----------------------------------------------------------------------------
(* Properties                                                              *)

RunCompleted == pc = "exited" /\ abort_cause = "none"

(* the clips of the pages this run has listed, in order *)
RECURSIVE ClipsOfPages(_)
ClipsOfPages(pages) ==
    IF pages = <<>> THEN <<>>
    ELSE ServePage(remote, Head(pages)).clips \o ClipsOfPages(Tail(pages))

ListedClips == ClipsOfPages(pages_fetched)

AllDatesParse == \A i \in DOMAIN ListedClips : Detail(ListedClips[i]).created_at.valid

(* C1 as stated: whenever two consecutive runs on the same output          *)
(* directory both reach the summary, the second leaves the tree as the     *)
(* first left it, downloads nothing and skips every listed clip.           *)
C1_IdempotentAnyData ==
    (run >= 2 /\ RunCompleted /\ prevRun.completed)
        => /\ fs = prevRun.tree
           /\ stats.downloaded = 0
           /\ stats.skipped = total_clips

(* C1 amended: when the first of two consecutive completed runs counted no *)
(* error and every listed clip has a parsable created_at, the second run   *)
(* leaves the tree unchanged, downloads nothing and skips every clip.      *)
C1_IdempotentAfterCleanRun ==
    (run >= 2 /\ RunCompleted /\ prevRun.completed /\ prevRun.errors = 0
        /\ AllDatesParse)
        => /\ fs = prevRun.tree
           /\ stats.downloaded = 0
           /\ stats.skipped = total_clips
           /\ stats.errors = 0

C1_Witness ==
    /\ run = 2 /\ RunCompleted /\ prevRun.completed /\ prevRun.errors = 0
    /\ AllDatesParse
    /\ today # FirstDay
    /\ total_clips = 2
    /\ stats.skipped = 2
    /\ \E c \in fs.clips : c.media # {}

TryBlockFailures == {"content_write", "metadata_build", "metadata_write",
                     "media_mkdir", "download"}

(* C2: when the last save_clip call hit an exception inside its try block  *)
(* (content write, metadata build or write, attachment handling), the      *)
(* clip's directory does not exist, errors grew by exactly 1 and           *)
(* downloaded and skipped are as before the call.                          *)
C2_PartialFailureCleanup ==
    lastSave.failed_at \in TryBlockFailures
        => /\ DirsAt(fs, lastSave.path) = {}
           /\ stats.errors = lastSave.before.errors + 1
           /\ stats.downloaded = lastSave.before.downloaded
           /\ stats.skipped = lastSave.before.skipped

C2_Witness ==
    /\ lastSave.failed_at = "metadata_write"
    /\ lastSave.dir_before = {}
    /\ stats.errors = 1
    /\ fs.clips = {}

Stage(outcome, failed_at) ==
    outcome # "skipped"
    /\ failed_at \notin {"content_write", "metadata_build", "metadata_write",
                         "media_mkdir"}

(* C4: when the last save_clip call got to the attachments of a clip that  *)
(* has some, every attachment was attempted in list order, the clip was    *)
(* counted once as downloaded and not as an error, its directory is kept   *)
(* and the media directory holds exactly the files whose fetch succeeded.  *)
C4_AttachmentIsolation ==
    (lastSave.id # 0 /\ Detail(lastSave.id).images # <<>>
        /\ Stage(lastSave.outcome, lastSave.failed_at))
        => LET images == Detail(lastSave.id).images
           IN /\ lastSave.attempts = [i \in 1..Len(images) |-> ImgFilename(images[i])]
              /\ Len(lastSave.att) = Len(images)
              /\ lastSave.outcome = "downloaded"
              /\ stats.downloaded = lastSave.before.downloaded + 1
              /\ stats.errors = lastSave.before.errors
              /\ stats.skipped = lastSave.before.skipped
              /\ \E c \in DirsAt(fs, lastSave.path) :
                    /\ c.media_dir
                    /\ c.media = {lastSave.attempts[i] : i \in
                                    {j \in 1..Len(images) : lastSave.att[j] = "ok"}}

C4_Witness ==
    /\ lastSave.id = 1
    /\ lastSave.att = <<"not_found", "ok">>
    /\ lastSave.outcome = "downloaded"
    /\ \E c \in DirsAt(fs, lastSave.path) : c.media = {"image.png"}

C4_WitnessUnauthorized ==
    /\ lastSave.id = 1
    /\ lastSave.att = <<"unauthorized", "conn_error">>
    /\ lastSave.outcome = "downloaded"
    /\ \E c \in DirsAt(fs, lastSave.path) : c.media_dir /\ c.media = {}

(* the loop must stop after page i: its result set is empty or i has       *)
(* reached the total_pages of its response (1 when the response has none)  *)
StopsAfter(i) ==
    LET r == ServePage(remote, i)
    IN r.clips = <<>> \/ \A n \in r.total_pages : i >= n

(* C3 as stated, for the failures tied to one clip: when a run stops while *)
(* a listed clip is being fetched and saved, and not on an unauthorized    *)
(* response or an unreachable server, no clip was left to process after    *)
(* that clip: a non-401 HTTP error on its detail, a null field or an error *)
(* creating its mode or clip directory keeps no later clip from being      *)
(* fetched and saved.                                                      *)
C3_ClipFailureIsolated ==
    (pc = "exited"
        /\ abort_cause \notin {"none", "no_token", "list_http_error",
                               "unauthorized", "unreachable"})
        => /\ idx = Len(response.clips)
           /\ StopsAfter(page) \/ ServePage(remote, page + 1).clips = <<>>

(* C5: list requests go out for pages 1, 2, 3, ... in order, each once;    *)
(* no page is requested after a page that ends the loop, and a run that    *)
(* reaches its summary has just fetched a page that ends the loop.         *)
C5_Pagination ==
    /\ pages_fetched = [i \in 1..Len(pages_fetched) |-> i]
    /\ \A i \in 1..(Len(pages_fetched) - 1) : ~StopsAfter(i)
    /\ (pc = "summary" \/ RunCompleted)
          => (pages_fetched # <<>> /\ StopsAfter(Len(pages_fetched)))

C5_Witness ==
    /\ RunCompleted
    /\ remote.report = "exact"
    /\ pages_fetched = <<1, 2>>
    /\ ServePage(remote, 2).total_pages = {2}
    /\ ServePage(remote, 2).clips # <<>>

C5_WitnessEmptyPage ==
    /\ RunCompleted
    /\ pages_fetched = <<1, 2>>
    /\ ServePage(remote, 2).clips = <<>>

UncaughtCauses == {"list_http_error", "http_error", "mode_mkdir",
                   "clip_mkdir", "null_title"}

C6_WitnessErrors ==
    /\ RunCompleted
    /\ stats.errors > 0
    /\ exit_code = 1

(* C7 as stated: for a url scheme://[www.]labels[:port][/path] the site    *)
(* slug is the labels joined by hyphens; for a url urlparse rejects it is  *)
(* "unknown-site"; extract_site_slug never raises.                         *)
C7_SiteSlugIsHyphenatedHost ==
    out_slug.done
        => /\ ~out_slug.raised
           /\ in_url.wellformed => out_slug.value = Join(in_url.labels, <<"-">>)
           /\ ~in_url.wellformed => out_slug.value = UnknownSite

(* C8: when the clip's directory existed at the call, save_clip counted    *)
(* the clip as skipped and nothing else, made no attachment request and    *)
(* left the directory as it was.                                           *)
C8_SkipGate ==
    lastSave.dir_before # {}
        => /\ lastSave.outcome = "skipped"
           /\ stats.skipped = lastSave.before.skipped + 1
           /\ stats.downloaded = lastSave.before.downloaded
           /\ stats.errors = lastSave.before.errors
           /\ lastSave.attempts = <<>>
           /\ DirsAt(fs, lastSave.path) = lastSave.dir_before

C8_Witness ==
    /\ lastSave.dir_before # {}
    /\ lastSave.outcome = "skipped"
    /\ Detail(lastSave.id).images # <<>>
    /\ \E c \in lastSave.dir_before : c.media # {}

Counters == {"downloaded", "skipped", "errors"}

(* C9: the last save_clip call that returned raised exactly one counter by *)
(* 1 and left the other two; downloaded + skipped + errors is the number   *)
(* of clips processed so far, and the total clips found at the summary.    *)
C9_CounterAccounting ==
    /\ lastSave.id # 0 =>
          \E c \in Counters :
              /\ stats[c] = lastSave.before[c] + 1
              /\ \A o \in Counters \ {c} : stats[o] = lastSave.before[o]
    /\ stats.downloaded + stats.skipped + stats.errors = processed
    /\ (pc = "summary" \/ RunCompleted) => processed = total_clips

C9_Witness ==
    /\ RunCompleted
    /\ total_clips = 2
    /\ stats.downloaded = 1
    /\ stats.errors = 1
    /\ run = 1

(* C10 as stated: in a first run on an empty output directory in which no  *)
(* request or write fails and no clip errors, every listed clip (the ids   *)
(* are distinct) has its own directory with its content and a metadata     *)
(* file carrying its id, skipped is 0 and downloaded is the clips listed.  *)
C10_NoClipLostToAnother ==
    (run = 1 /\ RunCompleted /\ clean /\ stats.errors = 0)
        => /\ Len(ListedClips) = total_clips
           /\ stats.skipped = 0
           /\ stats.downloaded = total_clips
           /\ \A i \in DOMAIN ListedClips :
                 \E c \in fs.clips :
                     /\ c.content = {Detail(ListedClips[i]).content}
                     /\ \E m \in c.meta : m.id = ListedClips[i]


====
